---- MODULE Spec2Model ----
(***************************************************************************)
(* agent-rss: the relevance store (db.py, a SQLite table "papers"), the     *)
(* relevance policy and response parser (main.py, llm/base.py) and the     *)
(* screening pipeline of the `run` command (main.py).                      *)
(*                                                                         *)
(* Spec       the `run` command, from the construction of the store handle *)
(*            (main.py 99-101) and the fetch (120) to the notification     *)
(*            (252), given a constructed backend handle `llm`.             *)
(* SpecStoreFail  the same, on a store whose INSERT may raise.             *)
(* SpecStore  the PaperDatabase methods called in any order with any       *)
(*            arguments, across process exits and re-constructions.        *)
(* SpecPolicy the admit decision of main.py 190-197 as a pure function.    *)
(* SpecParse  BaseLLM._parse_response as a pure function of the response.  *)
(* SpecQuery  get_stats and get_recent_relevant on a store written over    *)
(*            time, on machines at several UTC offsets.                    *)
(***************************************************************************)
EXTENDS Integers, Sequences, FiniteSets, TLC

\* ------------------------------------------------------------------ bounds
MaxTime == 1
MaxCalls == 3

\* ------------------------------------------------------------- universes
NULL == "NULL"

Links == {"u1", "u2"}
Feeds == {"f1", "f2"}

\* ------------------------------------------------------------ the schema
\* Columns of CREATE TABLE IF NOT EXISTS papers (...)
AllColumns ==
    {"id", "feed_url", "paper_url", "title", "authors", "source", "feed_group",
     "processed_at", "is_relevant", "field_match", "method_match", "summary"}

\* for col in ['authors', 'source', 'feed_group', 'field_match', 'method_match']
MigrationColumns == <<"authors", "source", "feed_group", "field_match", "method_match">>

\* A table written by a version that predates the migrated columns.
LegacyColumns == AllColumns \ {MigrationColumns[i] : i \in 1..Len(MigrationColumns)}

\* A row holds a value for every column of the current CREATE TABLE; a column
\* that is not in `schema` is not stored: it reads as that column's DEFAULT
\* once ALTER TABLE adds it (NULL for TEXT, FALSE for BOOLEAN DEFAULT FALSE).
LegacyRow(u, rel) ==
    [id |-> 1, feed_url |-> "f1", paper_url |-> u, title |-> "T-old",
     authors |-> NULL, source |-> NULL, feed_group |-> NULL,
     processed_at |-> 0, is_relevant |-> rel,
     field_match |-> FALSE, method_match |-> FALSE, summary |-> "old summary"]

VARIABLES
    schema,      \* columns of table papers in the database file; {} = no table
    papers,      \* the rows of table papers
    seq,         \* sqlite_sequence of papers (AUTOINCREMENT)
    now,         \* datetime.now(): the local clock, in ticks of half a day
    tz,          \* the local clock minus UTC, in the same ticks
    txn,         \* per process: its connection's open transaction on the file
    lock,        \* the process holding SQLite's write lock on the file, 0 = none
    handle,      \* a PaperDatabase object exists in the running process
    openedAt,    \* history: sqlite_sequence when that object was constructed, else 0
    calls,       \* history: identity -> the arguments of its mark_processed calls, in order
    recorded,    \* history: identities a record was ever written for
    ncalls,      \* history: number of mark_processed calls made
    pc,          \* position of the run command: "idle", "screening", "notify"
    all_papers,  \* run: the papers fetched from all feeds (main.py 127-133)
    cutoff_date, \* run: <<datetime.now() - timedelta(days)>> (main.py 138), <<>> before
    found_papers, \* run: the recent papers not processed (main.py 153), before the cap
    max_per_feed, \* run: --max-per-feed
    new_papers,  \* run: the papers to screen (main.py 153-167)
    idx,         \* run: index in new_papers of the paper the loop is at
    relevant_papers, \* run: the admitted papers collected so far
    dry_run,     \* run: --dry-run
    presented,   \* the entries the feeds hold at every fetch, when they are fixed
    email,       \* run: the results of the send_email calls of the command
    run,         \* history: number of run commands started
    status,      \* history: how the last run command ended
    seenBefore,  \* history: identities fetched by this run that had a record at its start
    outcomes,    \* history: per screened paper of this run, "ok" or "error"
    okCalls,     \* history: identity -> number of backend calls that returned
    arg,         \* the input of the pure function under check, <<>> when none
    ret          \* <<>>, or <<its result>>

storeVars == <<schema, papers, seq, now, tz, txn, lock, handle, openedAt, calls, recorded, ncalls>>
runVars == <<pc, all_papers, cutoff_date, found_papers, max_per_feed,
             new_papers, idx, relevant_papers, dry_run, presented, email, run, status, seenBefore,
             outcomes, okCalls>>
fnVars == <<arg, ret>>
vars == <<schema, papers, seq, now, tz, txn, lock, handle, openedAt, calls, recorded, ncalls,
          pc, all_papers, cutoff_date, found_papers, max_per_feed,
          new_papers, idx, relevant_papers, dry_run, presented, email, run, status, seenBefore,
          outcomes, okCalls, arg, ret>>

\* Processes that open the database file at the same time.
Procs == {1, 2}

\* A connection with no open transaction.
NoTxn == [pc |-> "none", a |-> <<>>, row |-> <<>>]

\* Feeds whose entries are not fixed.
NoEntries == [f \in Feeds |-> <<>>]

\* The database file as the methods of a handle see it.
CurrentDb == [schema |-> schema, rows |-> papers]

\* --------------------------------------------------------------- _init_db
CreateTableIfNotExists(s) == IF s = {} THEN AllColumns ELSE s

\* ALTER TABLE papers ADD COLUMN: raises OperationalError (swallowed by the
\* except clause) when the column exists, else adds it.
AlterTableAddColumn(s, col) == IF col \in s THEN s ELSE s \cup {col}

RECURSIVE AddColumns(_, _)
AddColumns(s, cols) ==
    IF cols = <<>> THEN s
    ELSE AddColumns(AlterTableAddColumn(s, Head(cols)), Tail(cols))

\* A schema initialisation that creates the table anew.
InitDbDropsTable(db) == [schema |-> AllColumns, rows |-> {}]

\* The database file after PaperDatabase._init_db: [schema, rows].
init_db(db) ==
    [schema |-> AddColumns(CreateTableIfNotExists(db.schema), MigrationColumns),
     rows   |-> db.rows]

\* ------------------------------------------------------------ is_processed
\* SELECT 1 FROM papers WHERE paper_url = ?
SelectByUrl(rows, paper_url) == {r \in rows : r.paper_url = paper_url}

\* A lookup that finds nothing.
IsProcessedNever(db, paper_url) == [raised |-> db.schema = {}, value |-> FALSE]

\* cursor.fetchone() is not None; the SELECT raises when there is no table.
is_processed(db, paper_url) ==
    [raised |-> "paper_url" \notin db.schema,
     value  |-> "paper_url" \in db.schema /\ SelectByUrl(db.rows, paper_url) # {}]

\* ---------------------------------------------------------- mark_processed
\* An INSERT into a table without the UNIQUE constraint, and INSERT OR IGNORE.
PlainInsert(rows, new) == rows \cup {new}
InsertOrIgnore(rows, new) ==
    IF \E r \in rows : r.paper_url = new.paper_url THEN rows ELSE rows \cup {new}

\* INSERT OR REPLACE: rows that conflict with the new row on the UNIQUE
\* paper_url (or on the PRIMARY KEY) are deleted, then the row is inserted.
InsertOrReplace(rows, new) ==
    {r \in rows : r.paper_url # new.paper_url /\ r.id # new.id} \cup {new}

\* The row mark_processed inserts: the id is the next AUTOINCREMENT value and
\* processed_at is datetime.now().
NewRow(a, id, t) ==
    [id |-> id, feed_url |-> a.feed_url, paper_url |-> a.paper_url,
     title |-> a.title, authors |-> a.authors, source |-> a.source,
     feed_group |-> a.feed_group, processed_at |-> t,
     is_relevant |-> a.is_relevant, field_match |-> a.field_match,
     method_match |-> a.method_match, summary |-> a.summary]

\* The arguments of a row, as mark_processed received them.
ArgsOf(r) ==
    [feed_url |-> r.feed_url, paper_url |-> r.paper_url, title |-> r.title,
     is_relevant |-> r.is_relevant, summary |-> r.summary, authors |-> r.authors,
     source |-> r.source, feed_group |-> r.feed_group,
     field_match |-> r.field_match, method_match |-> r.method_match]

\* The statement names every column of AllColumns but id: it raises when one is
\* missing from the table.
InsertRaises(s) == ~((AllColumns \ {"id"}) \subseteq s)

\* mark_processed(**a) with conn.commit(): the state of the store afterwards.
mark_processed(a) ==
    /\ handle
    /\ ~InsertRaises(schema)
    /\ papers' = InsertOrReplace(papers, NewRow(a, seq + 1, now))
    /\ seq' = seq + 1
    /\ calls' = [calls EXCEPT ![a.paper_url] = Append(@, a)]
    /\ recorded' = recorded \cup {a.paper_url}
    /\ ncalls' = ncalls + 1
    /\ UNCHANGED <<schema, now, tz, txn, lock, handle, openedAt>>

\* PaperDatabase.__init__: _init_db on the file at db_path.
Construct ==
    /\ schema' = init_db([schema |-> schema, rows |-> papers]).schema
    /\ papers' = init_db([schema |-> schema, rows |-> papers]).rows
    /\ handle' = TRUE
    /\ openedAt' = seq
    /\ UNCHANGED <<seq, now, tz, txn, lock, calls, recorded, ncalls>>


\* ------------------------------------------------------------------ text
\* A Python str is modelled as a sequence of pieces (characters, or tokens
\* that are never split); Join gives the TLA+ string of it.
RECURSIVE Join(_)
Join(s) == IF s = <<>> THEN "" ELSE Head(s) \o Join(Tail(s))

\* str.lower() / str.upper() on one piece
LowerPiece(c) ==
    CASE c = "H" -> "h" [] c = "I" -> "i" [] c = "G" -> "g" [] c = "Q" -> "q"
      [] c = "U" -> "u" [] c = "A" -> "a" [] c = "L" -> "l" [] c = "T" -> "t"
      [] c = "Y" -> "y"
      [] c = "YES" -> "yes" [] c = "Yes" -> "yes" [] c = "NO" -> "no"
      [] c = "True" -> "true" [] c = "TRUE" -> "true"
      [] OTHER -> c

UpperPiece(c) ==
    CASE c = "field_match:" -> "FIELD_MATCH:" [] c = "Field_Match:" -> "FIELD_MATCH:"
      [] c = "method_match:" -> "METHOD_MATCH:" [] c = "Method_Match:" -> "METHOD_MATCH:"
      [] c = "summary:" -> "SUMMARY:" [] c = "Summary:" -> "SUMMARY:"
      [] OTHER -> c

lower(s) == [i \in 1..Len(s) |-> LowerPiece(s[i])]

\* s.startswith(p)
startswith(s, p) == Len(p) <= Len(s) /\ SubSeq(s, 1, Len(p)) = p

\* needle in hay
RECURSIVE StrIn(_, _)
StrIn(needle, hay) ==
    IF startswith(hay, needle) THEN TRUE
    ELSE IF hay = <<>> THEN FALSE
    ELSE StrIn(needle, Tail(hay))

\* --------------------------------------------------------------- policy
HIGH == <<"h", "i", "g", "h">>
QUALITY == <<"q", "u", "a", "l", "i", "t", "y">>

\* The test without .lower()
IsHighQualityCaseSensitive(group) == StrIn(HIGH, group) \/ StrIn(QUALITY, group)

\* is_high_quality = 'high' in group.lower() or 'quality' in group.lower()
is_high_quality(group) == StrIn(HIGH, lower(group)) \/ StrIn(QUALITY, lower(group))

\* is_relevant of main.py 192-197
decide(field_match, method_match, group) ==
    IF is_high_quality(group)
    THEN field_match \/ method_match
    ELSE field_match /\ method_match

\* ------------------------------------------------------- _parse_response
Whitespace == {" ", "\n"}

RECURSIVE lstrip(_)
lstrip(s) == IF s # <<>> /\ Head(s) \in Whitespace THEN lstrip(Tail(s)) ELSE s

RECURSIVE rstrip(_)
rstrip(s) ==
    IF s # <<>> /\ s[Len(s)] \in Whitespace THEN rstrip(SubSeq(s, 1, Len(s) - 1)) ELSE s

\* str.strip()
strip(s) == rstrip(lstrip(s))

\* Index of the first piece of s equal to tok, 0 when there is none.
FirstIndex(s, tok) ==
    IF \E i \in 1..Len(s) : s[i] = tok
    THEN CHOOSE i \in 1..Len(s) : s[i] = tok /\ \A j \in 1..(i - 1) : s[j] # tok
    ELSE 0

\* str.split('\n')
RECURSIVE split_lines(_)
split_lines(s) ==
    LET k == FirstIndex(s, "\n")
    IN  IF k = 0 THEN <<s>>
        ELSE <<SubSeq(s, 1, k - 1)>> \o split_lines(SubSeq(s, k + 1, Len(s)))

\* value in ('yes', 'true', '1')
Truthy == {"yes", "true", "1"}

\* A scan that compares the line with the markers without line.upper().
ParseLineCaseSensitive(acc, raw) ==
    LET line  == strip(raw)
        first == IF line = <<>> THEN "" ELSE Head(line)
        rest  == strip(Tail(line))
    IN  IF first = "FIELD_MATCH:"
        THEN [acc EXCEPT !.field_match = Join(lower(rest)) \in Truthy]
        ELSE IF first = "METHOD_MATCH:"
        THEN [acc EXCEPT !.method_match = Join(lower(rest)) \in Truthy]
        ELSE IF first = "SUMMARY:"
        THEN [acc EXCEPT !.summary = Join(rest)]
        ELSE acc

\* One iteration of `for line in lines` on the values collected so far.
ParseLine(acc, raw) ==
    LET line  == strip(raw)
        first == IF line = <<>> THEN "" ELSE UpperPiece(Head(line))
        rest  == strip(Tail(line))   \* line.split(':', 1)[1].strip()
    IN  IF first = "FIELD_MATCH:"
        THEN [acc EXCEPT !.field_match = Join(lower(rest)) \in Truthy]
        ELSE IF first = "METHOD_MATCH:"
        THEN [acc EXCEPT !.method_match = Join(lower(rest)) \in Truthy]
        ELSE IF first = "SUMMARY:"
        THEN [acc EXCEPT !.summary = Join(rest)]
        ELSE acc

RECURSIVE ParseLines(_, _)
ParseLines(acc, lines) ==
    IF lines = <<>> THEN acc
    ELSE ParseLines(ParseLine(acc, Head(lines)), Tail(lines))

\* The values _parse_response starts from, before it reads the response.
ParseDefaults(response) ==
    [is_relevant |-> FALSE, summary |-> "", field_match |-> FALSE, method_match |-> FALSE]

\* BaseLLM._parse_response: the ScreeningResult of a response
parse_response(response) ==
    LET scanned == ParseLines([field_match |-> FALSE, method_match |-> FALSE, summary |-> ""],
                              split_lines(strip(response)))
        k == FirstIndex(response, "SUMMARY:")
        summary == IF k # 0   \* if 'SUMMARY:' in response
                   THEN Join(strip(SubSeq(response, k + 1, Len(response))))
                   ELSE scanned.summary
    IN  [is_relevant  |-> scanned.field_match \/ scanned.method_match,
         summary      |-> summary,
         field_match  |-> scanned.field_match,
         method_match |-> scanned.method_match]

\* Responses the backend returns in the run.
Response(f, m, s) ==
    <<"FIELD_MATCH:", " ", f, "\n", "METHOD_MATCH:", " ", m, "\n", "SUMMARY:", " ", s>>

RunResponses ==
    { Response("yes", "yes", "Problem: X | Method: Y"),
      Response("yes", "no", "Problem: X"),
      Response("no", "no", "Not related") }

\* What screen_paper returns for them (llm/base.py 167-168).
RunResults == {parse_response(response) : response \in RunResponses}

\* ------------------------------------------------------------- the feeds
MaxBatch == 2
MaxRuns == 2
MaxCap == 1

\* timedelta(days=1), in ticks of the clock
Day == 2

\* --days: the default and a short window
DefaultDays == 10
DaysChoices == {1, DefaultDays}

HighQualityGroup == HIGH \o <<"-">> \o QUALITY
DefaultGroup == <<"d", "e", "f", "a", "u", "l", "t">>

\* rss_list.md as parse_rss_list_grouped returns it: group -> urls, in file order
feed_groups ==
    << [group |-> HighQualityGroup, urls |-> <<"f1">>],
       [group |-> DefaultGroup, urls |-> <<"f2">>] >>

\* parse_date of the entry with this link: u1 carries a date, u2 carries none
\* (None is <<>>, a datetime t is <<t>>)
PublishedOf(link) == IF link = "u1" THEN <<-Day>> ELSE <<>>

\* The Paper fetch_feed builds for an entry; run sets feed_group (main.py 132).
Paper(link, feed_url, group) ==
    [title |-> "T-" \o link, link |-> link, authors |-> "A-" \o link,
     abstract |-> "", published |-> PublishedOf(link),
     source |-> "S-" \o feed_url, feed_url |-> feed_url, feed_group |-> group]

SeqsUpTo(S, n) == UNION {[1..k -> S] : k \in 0..n}

\* What the feeds hold when a run fetches them: per feed, the links of its
\* entries in feed order; MaxBatch entries in all.
RECURSIVE TotalLen(_, _)
TotalLen(contents, feeds) ==
    IF feeds = {} THEN 0
    ELSE LET f == CHOOSE x \in feeds : TRUE
         IN  Len(contents[f]) + TotalLen(contents, feeds \ {f})

FeedContents ==
    {c \in [Feeds -> SeqsUpTo(Links, MaxBatch)] : TotalLen(c, Feeds) <= MaxBatch}

\* for url in urls: papers = fetch_feed(url); p.feed_group = group; extend
RECURSIVE FetchUrls(_, _, _)
FetchUrls(urls, group, contents) ==
    IF urls = <<>> THEN <<>>
    ELSE [i \in 1..Len(contents[Head(urls)]) |->
             Paper(contents[Head(urls)][i], Head(urls), group)]
         \o FetchUrls(Tail(urls), group, contents)

\* for group, urls in feed_groups.items()
RECURSIVE FetchGroups(_, _)
FetchGroups(groups, contents) ==
    IF groups = <<>> THEN <<>>
    ELSE FetchUrls(Head(groups).urls, Head(groups).group, contents)
         \o FetchGroups(Tail(groups), contents)

\* A filter without the `elif p.published is None` branch.
IsRecentDropsUndated(p, cutoff) == p.published # <<>> /\ p.published[1] >= cutoff

\* main.py 141-147: kept when published >= cutoff_date or published is None
IsRecent(p, cutoff) ==
    \/ p.published # <<>> /\ p.published[1] >= cutoff
    \/ p.published = <<>>

RecentPapers(ps, cutoff) ==
    SelectSeq(ps, LAMBDA p : IsRecent(p, cutoff))

\* A run without the filter of main.py 153.
UnprocessedKeepsAll(db, recent_papers) == recent_papers

\* main.py 153: [p for p in recent_papers if not db.is_processed(p.link)]
Unprocessed(db, recent_papers) ==
    SelectSeq(recent_papers, LAMBDA p : ~is_processed(db, p.link).value)

\* main.py 159-164
RECURSIVE LimitPerFeed(_, _, _)
LimitPerFeed(ps, feed_counts, cap) ==
    IF ps = <<>> THEN <<>>
    ELSE LET p == Head(ps)
         IN  IF feed_counts[p.feed_url] < cap
             THEN <<p>> \o LimitPerFeed(Tail(ps),
                               [feed_counts EXCEPT ![p.feed_url] = @ + 1], cap)
             ELSE LimitPerFeed(Tail(ps), feed_counts, cap)

\* A cap on the papers of the run, whatever their feed.
LimitedInTotal(ps, cap) ==
    IF cap > 0 /\ Len(ps) > cap THEN SubSeq(ps, 1, cap) ELSE ps

\* A run that ignores --max-per-feed.
LimitedNever(ps, cap) == ps

\* main.py 157-167
Limited(ps, cap) ==
    IF cap > 0
    THEN LimitPerFeed(ps, [f \in Feeds |-> 0], cap)
    ELSE ps

\* ------------------------------------------------------------ run: begin
\* main.py 99-101 and 120-171: construct the store, fetch, filter by date,
\* filter the processed, cap per feed; return when nothing is left.
RunFrom(contents, days, cap, dry) ==
    /\ pc = "idle"
    /\ LET db == init_db([schema |-> schema, rows |-> papers])
           fetched == FetchGroups(feed_groups, contents)
           recent_papers == RecentPapers(fetched, now - days * Day)
           found == Unprocessed(db, recent_papers)
           limited == Limited(found, cap)
       IN  /\ schema' = db.schema
           /\ papers' = db.rows
           /\ all_papers' = IF limited = <<>> THEN <<>> ELSE fetched
           /\ cutoff_date' = IF limited = <<>> THEN <<>> ELSE <<now - days * Day>>
           /\ found_papers' = found
           /\ max_per_feed' = IF limited = <<>> THEN 0 ELSE cap
           /\ new_papers' = limited
           /\ dry_run' = (dry /\ limited # <<>>)
           /\ seenBefore' = {fetched[i].link : i \in 1..Len(fetched)}
                               \cap {r.paper_url : r \in papers}
           /\ pc' = IF limited = <<>> THEN "idle" ELSE "screening"
           /\ status' = IF limited = <<>> THEN "no_new_papers" ELSE "running"
           /\ handle' = (limited # <<>>)
           /\ openedAt' = IF limited # <<>> THEN seq ELSE 0
    /\ idx' = 1
    /\ relevant_papers' = <<>>
    /\ outcomes' = <<>>
    /\ email' = <<>>
    /\ UNCHANGED <<seq, now, tz, txn, lock, calls, recorded, ncalls, okCalls,
                   presented, arg, ret>>

\* A run command on whatever the feeds hold when it fetches them.
RunBegin ==
    /\ run < MaxRuns
    /\ \E contents \in FeedContents,
          days \in DaysChoices, cap \in 0..MaxCap, dry \in BOOLEAN :
          RunFrom(contents, days, cap, dry)
    /\ run' = run + 1

\* ------------------------------------------------------- run: the loop
\* Where the loop of main.py 177 stands after the iteration on paper i of n.
LoopNext(i, n) ==
    [pc |-> IF i < n THEN "screening" ELSE "notify", idx |-> i + 1, status |-> "running"]

\* A loop without the except clause: the exception ends the command.
OnExceptionAbort(i, n) == [pc |-> "idle", idx |-> i, status |-> "exception"]

\* An except clause that screens the same paper again.
OnExceptionRetry(i, n) == [pc |-> "screening", idx |-> i, status |-> "running"]

\* main.py 227-229: except Exception: log, echo, next iteration
OnException(i, n) == LoopNext(i, n)

\* An except clause that records the paper as screened and not relevant.
ExceptRowsRecordsRejected(rows, paper, id, t) ==
    InsertOrReplace(rows,
        NewRow([feed_url |-> paper.feed_url, paper_url |-> paper.link,
                title |-> paper.title, is_relevant |-> FALSE, summary |-> NULL,
                authors |-> paper.authors, source |-> paper.source,
                feed_group |-> Join(paper.feed_group),
                field_match |-> FALSE, method_match |-> FALSE], id, t))

\* main.py 227-229: the except clause logs and echoes; the table it leaves
ExceptRows(rows, paper, id, t) == rows

\* The is_relevant of the ScreeningResult, which knows no group.
AdmitParsed(result, group) == result.is_relevant

\* main.py 190-197: the value run persists and admits by
Admit(result, group) == decide(result.field_match, result.method_match, group)

\* main.py 215-222
Entry(paper, group, result) ==
    [title |-> paper.title, source |-> paper.source, authors |-> paper.authors,
     link |-> paper.link, group |-> Join(group), summary |-> result.summary]

\* A loop that appends the entry whatever the decision.
CollectedAlways(acc, is_relevant, entry) == Append(acc, entry)

\* main.py 214-222: if is_relevant: relevant_papers.append({...})
Collected(acc, is_relevant, entry) == IF is_relevant THEN Append(acc, entry) ELSE acc

\* main.py 180-225: the backend returns and screen_paper gives `result`
ScreenOk ==
    /\ pc = "screening"
    /\ \E result \in RunResults :
          LET paper == new_papers[idx]
              group == paper.feed_group
              is_relevant == Admit(result, group)
              nxt == LoopNext(idx, Len(new_papers))
          IN  /\ mark_processed(
                    [feed_url |-> paper.feed_url, paper_url |-> paper.link,
                     title |-> paper.title, is_relevant |-> is_relevant,
                     summary |-> result.summary, authors |-> paper.authors,
                     source |-> paper.source, feed_group |-> Join(group),
                     field_match |-> result.field_match,
                     method_match |-> result.method_match])
              /\ relevant_papers' =
                    Collected(relevant_papers, is_relevant, Entry(paper, group, result))
              /\ okCalls' = [okCalls EXCEPT ![paper.link] = @ + 1]
              /\ pc' = nxt.pc
              /\ idx' = nxt.idx
              /\ status' = nxt.status
    /\ outcomes' = Append(outcomes, "ok")
    /\ UNCHANGED <<all_papers, cutoff_date, found_papers, max_per_feed,
                   new_papers, dry_run, presented, email, run, seenBefore, arg, ret>>

\* main.py 180-188, 227-229: llm.screen_paper raises
ScreenError ==
    /\ pc = "screening"
    /\ LET nxt == OnException(idx, Len(new_papers))
       IN  /\ papers' = ExceptRows(papers, new_papers[idx], seq + 1, now)
           /\ pc' = nxt.pc
           /\ idx' = nxt.idx
           /\ status' = nxt.status
           /\ handle' = (nxt.pc # "idle")
           /\ openedAt' = IF nxt.pc # "idle" THEN openedAt ELSE 0
    /\ outcomes' = Append(outcomes, "error")
    /\ UNCHANGED <<schema, seq, now, tz, txn, lock, calls, recorded, ncalls,
                   all_papers, cutoff_date, found_papers, max_per_feed,
                   new_papers, relevant_papers, dry_run, presented, email, run, seenBefore, okCalls,
                   arg, ret>>

\* main.py 227-229: `except Exception` also catches the sqlite3.Error that
\* db.mark_processed raises at main.py 199: log, echo, next iteration
OnStoreError(i, n) == LoopNext(i, n)

\* main.py 180-210, 227-229: the backend returns, the response is parsed, and
\* the INSERT of mark_processed raises sqlite3.OperationalError (database is
\* locked, disk I/O error, read-only file); the connection context manager
\* rolls back.
ScreenStoreError ==
    /\ pc = "screening"
    /\ handle
    /\ LET nxt == OnStoreError(idx, Len(new_papers))
       IN  /\ pc' = nxt.pc
           /\ idx' = nxt.idx
           /\ status' = nxt.status
    /\ okCalls' = [okCalls EXCEPT ![new_papers[idx].link] = @ + 1]
    /\ outcomes' = Append(outcomes, "store_error")
    /\ UNCHANGED storeVars
    /\ UNCHANGED <<all_papers, cutoff_date, found_papers, max_per_feed,
                   new_papers, relevant_papers, dry_run, presented, email, run, seenBefore, arg, ret>>

\* email_sender.py 138-147: send_email returns True, or logs the exception of
\* the SMTP session and returns False.
SendResults == BOOLEAN

\* A command that sends whatever it collected, dry run or not.
ShouldSendAlways(relevant, dry) == TRUE

\* A run that sends whenever a paper is relevant, --dry-run or not.
ShouldSendIgnoresDry(relevant, dry) == relevant # <<>>

\* main.py 234: if relevant_papers and not dry_run
ShouldSend(relevant, dry) == relevant # <<>> /\ ~dry

\* main.py 231-252: the notification (one send_email call, its result echoed),
\* then the command returns
Notify ==
    /\ pc = "notify"
    /\ IF ShouldSend(relevant_papers, dry_run)
       THEN \E success \in SendResults : email' = Append(email, success)
       ELSE email' = email
    /\ pc' = "idle"
    /\ status' = "completed"
    /\ handle' = FALSE
    /\ openedAt' = 0
    /\ all_papers' = <<>>
    /\ cutoff_date' = <<>>
    /\ found_papers' = <<>>
    /\ max_per_feed' = 0
    /\ new_papers' = <<>>
    /\ idx' = 1
    /\ relevant_papers' = <<>>
    /\ dry_run' = FALSE
    /\ seenBefore' = {}
    /\ outcomes' = <<>>
    /\ UNCHANGED <<schema, papers, seq, now, tz, txn, lock, calls, recorded, ncalls,
                   run, okCalls, presented, arg, ret>>

\* ---------------------------------------------------------------- Init
\* The database file before the first command: absent, or left by a version
\* that predates the migrated columns.
InitStore ==
    /\ now = 0
    /\ handle = FALSE
    /\ txn = [p \in Procs |-> NoTxn]
    /\ lock = 0
    /\ openedAt = 0
    /\ ncalls = 0
    /\ \/ /\ schema = {}
          /\ papers = {}
          /\ seq = 0
       \/ /\ schema = LegacyColumns
          /\ \/ papers = {} /\ seq = 0
             \/ papers = {LegacyRow("u1", TRUE)} /\ seq = 1
    /\ recorded = {r.paper_url : r \in papers}
    /\ calls = [u \in Links |-> <<>>]

InitRun ==
    /\ pc = "idle"
    /\ all_papers = <<>>
    /\ cutoff_date = <<>>
    /\ found_papers = <<>>
    /\ max_per_feed = 0
    /\ new_papers = <<>>
    /\ idx = 1
    /\ relevant_papers = <<>>
    /\ dry_run = FALSE
    /\ email = <<>>
    /\ run = 0
    /\ status = "none"
    /\ seenBefore = {}
    /\ outcomes = <<>>
    /\ okCalls = [u \in Links |-> 0]

Init ==
    /\ InitStore
    /\ tz = 0
    /\ presented = NoEntries
    /\ InitRun
    /\ arg = <<>>
    /\ ret = <<>>

Tick ==
    /\ now < MaxTime
    /\ now' = now + 1
    /\ UNCHANGED <<schema, papers, seq, tz, txn, lock, handle, openedAt, calls, recorded, ncalls>>
    /\ UNCHANGED runVars
    /\ UNCHANGED fnVars

Next == RunBegin \/ ScreenOk \/ ScreenError \/ Notify \/ Tick

Spec == Init /\ [][Next]_vars

\* ------------------------------ SpecLive: the run, its calls returning
\* The loop of main.py 177-229 is sequential: the backend call of the paper
\* it is at raises or returns, and the loop moves on; after the last paper
\* the notification is made and the command returns.
MaxLiveRuns == 1

LiveRun ==
    /\ run < MaxLiveRuns
    /\ \E contents \in FeedContents,
          days \in DaysChoices, cap \in 0..MaxCap, dry \in BOOLEAN :
          RunFrom(contents, days, cap, dry)
    /\ run' = run + 1

LiveNext == LiveRun \/ ScreenOk \/ ScreenError \/ Notify \/ Tick

SpecLive ==
    /\ Init
    /\ [][LiveNext]_vars
    /\ WF_vars(ScreenError \/ ScreenOk)
    /\ WF_vars(Notify)

\* ------------- SpecCapped, SpecRetry: the run command on the same entries
\* The feeds hold the same entries at every fetch, and the command is run
\* again and again (a cron job, README) with the default --days, under which
\* no entry is stale.
RerunInit ==
    /\ InitStore
    /\ tz = 0
    /\ presented \in FeedContents
    /\ InitRun
    /\ arg = <<>>
    /\ ret = <<>>

\* A run command with --max-per-feed among caps; `run` counts up to MaxRuns.
Rerun(caps) ==
    /\ \E cap \in caps, dry \in BOOLEAN : RunFrom(presented, DefaultDays, cap, dry)
    /\ run' = IF run < MaxRuns THEN run + 1 ELSE run

\* --max-per-feed N with N >= 1
RerunCapped == Rerun(1..MaxCap)

CappedNext == RerunCapped \/ ScreenOk \/ Notify \/ Tick

\* Every backend call returns.
SpecCapped ==
    /\ RerunInit
    /\ [][CappedNext]_vars
    /\ WF_vars(RerunCapped)
    /\ WF_vars(ScreenOk)
    /\ WF_vars(Notify)

\* --max-per-feed 0 (no cap) or N
RerunAny == Rerun(0..MaxCap)

RetryNext == RerunAny \/ ScreenOk \/ ScreenError \/ Notify \/ Tick

\* A backend call raises or returns, and does not raise for ever: of the calls
\* made again and again, one returns. The last but one conjunct is
\* SF_vars(ScreenOk) written out, ScreenOk being enabled exactly in the loop.
SpecRetry ==
    /\ RerunInit
    /\ [][RetryNext]_vars
    /\ WF_vars(RerunAny)
    /\ WF_vars(ScreenError \/ ScreenOk)
    /\ <>[](pc # "screening") \/ []<><<ScreenOk>>_vars
    /\ WF_vars(Notify)

\* ------------------ SpecDryRun: run --dry-run, then run, on the same entries
\* run --dry-run, the first command
DryRun ==
    /\ run = 0
    /\ \E cap \in 0..MaxCap : RunFrom(presented, DefaultDays, cap, TRUE)
    /\ run' = 1

\* run without --dry-run, the second command
NormalRun ==
    /\ run = 1
    /\ \E cap \in 0..MaxCap : RunFrom(presented, DefaultDays, cap, FALSE)
    /\ run' = 2

DryRunNext == DryRun \/ NormalRun \/ ScreenOk \/ ScreenError \/ Notify \/ Tick

SpecDryRun == RerunInit /\ [][DryRunNext]_vars

\* ----------- SpecSendFail: a run whose send fails, then a run on the same entries
\* run, the first command
FirstRun ==
    /\ run = 0
    /\ \E cap \in 0..MaxCap : RunFrom(presented, DefaultDays, cap, FALSE)
    /\ run' = 1

\* run again, after send_email returned False to the first command
LaterRun ==
    /\ run = 1
    /\ status = "completed"
    /\ email = <<FALSE>>
    /\ \E cap \in 0..MaxCap, dry \in BOOLEAN : RunFrom(presented, DefaultDays, cap, dry)
    /\ run' = 2

SendFailNext == FirstRun \/ LaterRun \/ ScreenOk \/ ScreenError \/ Notify \/ Tick

SpecSendFail == RerunInit /\ [][SendFailNext]_vars

\* ------------------------- SpecStoreFail: the run on a store that may fail
StoreFailNext == Next \/ ScreenStoreError

SpecStoreFail == Init /\ [][StoreFailNext]_vars

\* ------------------------------- SpecAbort: the run, aborted at any point
\* An abort that leaves a row without verdict for the paper in flight.
AbortRowsPartial(rows, paper, id, t) ==
    InsertOrReplace(rows,
        [id |-> id, feed_url |-> paper.feed_url, paper_url |-> paper.link,
         title |-> paper.title, authors |-> NULL, source |-> NULL,
         feed_group |-> NULL, processed_at |-> t, is_relevant |-> FALSE,
         field_match |-> FALSE, method_match |-> FALSE, summary |-> NULL])

\* main.py 180-199: the iteration writes nothing before db.mark_processed, so
\* the table is as it was when the process is interrupted before that call
AbortRows(rows, paper, id, t) == rows

\* The process is interrupted (KeyboardInterrupt, which `except Exception` at
\* main.py 227 does not catch, or a kill) between two iterations, during the
\* backend call of new_papers[idx], or after the last iteration. new_papers,
\* idx and outcomes stay as the process left them, for the record.
Abort ==
    /\ pc \in {"screening", "notify"}
    /\ papers' = IF pc = "screening"
                 THEN AbortRows(papers, new_papers[idx], seq + 1, now)
                 ELSE papers
    /\ pc' = "idle"
    /\ status' = "aborted"
    /\ handle' = FALSE
    /\ openedAt' = 0
    /\ all_papers' = <<>>
    /\ cutoff_date' = <<>>
    /\ found_papers' = <<>>
    /\ max_per_feed' = 0
    /\ relevant_papers' = <<>>
    /\ dry_run' = FALSE
    /\ seenBefore' = {}
    /\ UNCHANGED <<new_papers, idx, outcomes>>
    /\ UNCHANGED <<schema, seq, now, tz, txn, lock, calls, recorded, ncalls,
                   run, okCalls, presented, email, arg, ret>>

AbortNext == Next \/ Abort

SpecAbort == Init /\ [][AbortNext]_vars

\* --------------------------------------------------- SpecStore: the store
\* Arguments a caller may pass to mark_processed.
StoreArgs ==
    { [feed_url |-> "f1", paper_url |-> u, title |-> "T1", is_relevant |-> TRUE,
       summary |-> "s1", authors |-> "A1", source |-> "S1",
       feed_group |-> "high-quality", field_match |-> TRUE, method_match |-> FALSE] : u \in Links }
    \cup
    { [feed_url |-> "f2", paper_url |-> u, title |-> "T2", is_relevant |-> FALSE,
       summary |-> NULL, authors |-> NULL, source |-> NULL,
       feed_group |-> NULL, field_match |-> FALSE, method_match |-> FALSE] : u \in Links }
    \cup
    { [feed_url |-> "f2", paper_url |-> u, title |-> "T1", is_relevant |-> TRUE,
       summary |-> "s2", authors |-> "A1", source |-> "S2",
       feed_group |-> "default", field_match |-> TRUE, method_match |-> TRUE] : u \in Links }

StoreConstruct == Construct /\ UNCHANGED runVars /\ UNCHANGED fnVars

StoreCall ==
    /\ ncalls < MaxCalls
    /\ \E a \in StoreArgs : mark_processed(a)
    /\ UNCHANGED runVars
    /\ UNCHANGED fnVars

\* The process holding the handle exits.
StoreExit ==
    /\ handle
    /\ handle' = FALSE
    /\ openedAt' = 0
    /\ UNCHANGED <<schema, papers, seq, now, tz, txn, lock, calls, recorded, ncalls>>
    /\ UNCHANGED runVars
    /\ UNCHANGED fnVars

StoreNext == StoreConstruct \/ StoreCall \/ StoreExit \/ Tick

SpecStore == Init /\ [][StoreNext]_vars

\* ------------------------------------------ SpecPolicy: the admit decision
MaxWords == 2

\* Pieces of group labels; a label is up to MaxWords of them, concatenated.
LabelWords ==
    { HIGH, QUALITY, DefaultGroup, <<"-">>, <<"H", "I", "G", "H">>,
      <<"Q", "u", "a", "l", "i", "t", "y">>, <<"h", "i", "g">>, <<"h">>,
      <<"q", "u", "a", "l", "i", "t">>, <<"o", "t", "h", "e", "r">> }

RECURSIVE Concat(_)
Concat(ws) == IF ws = <<>> THEN <<>> ELSE Head(ws) \o Concat(Tail(ws))

Labels == {Concat(ws) : ws \in SeqsUpTo(LabelWords, MaxWords)}

PolicyInit ==
    /\ InitStore /\ schema = {}
    /\ tz = 0
    /\ presented = NoEntries
    /\ InitRun
    /\ arg \in [field_match : BOOLEAN, method_match : BOOLEAN, group : Labels]
    /\ ret = <<>>

PolicyDecide ==
    /\ ret = <<>>
    /\ ret' = <<decide(arg.field_match, arg.method_match, arg.group)>>
    /\ UNCHANGED <<arg>>
    /\ UNCHANGED storeVars
    /\ UNCHANGED runVars

SpecPolicy == PolicyInit /\ [][PolicyDecide]_vars


\* ------------------------------------------ SpecParse: _parse_response
MaxLines == 3

FM == "FIELD_MATCH:"
MM == "METHOD_MATCH:"

\* Lines a backend may answer with: the markers in upper, lower and mixed
\* case, with and without blanks, values in and out of ('yes', 'true', '1'),
\* free text, a marker behind other text, an empty line.
LineChoices ==
    { <<FM, " ", "yes">>,
      <<"field_match:", "YES">>,
      <<FM, " ", "no">>,
      <<" ", MM, " ", "1", " ">>,
      <<MM, " ", "maybe">>,
      <<"SUMMARY:", " ", "a">>,
      <<"summary:", " ", "b">>,
      <<"c">>,
      <<"c", " ", "SUMMARY:", "d">>,
      <<"c", " ", FM, "yes">>,
      <<>> }

\* '\n'.join(lines)
RECURSIVE JoinLines(_)
JoinLines(ls) ==
    IF ls = <<>> THEN <<>>
    ELSE IF Len(ls) = 1 THEN ls[1]
    ELSE ls[1] \o <<"\n">> \o JoinLines(Tail(ls))

Responses == {JoinLines(ls) : ls \in SeqsUpTo(LineChoices, MaxLines)}

ParseInit ==
    /\ InitStore /\ schema = {}
    /\ tz = 0
    /\ presented = NoEntries
    /\ InitRun
    /\ arg \in Responses
    /\ ret = <<>>

\* response = self._call_api(prompt); return self._parse_response(response)
ParseApply ==
    /\ ret = <<>>
    /\ ret' = <<parse_response(arg)>>
    /\ UNCHANGED <<arg>>
    /\ UNCHANGED storeVars
    /\ UNCHANGED runVars

SpecParse == ParseInit /\ [][ParseApply]_vars

\* ------------------------- SpecQuery: get_stats and get_recent_relevant
MaxRows == 5
MaxClock == 3

\* The UTC offsets of the machine: half a day behind, none, half a day ahead.
Offsets == {-1, 0, 1}

\* --days of send-report, and days=None of get_stats (None is <<>>)
ReportDays == {<<1>>}
StatsDays == {<<>>, <<1>>}

\* datetime('now', '-N days'): SQLite's clock is UTC. processed_at holds the
\* text of datetime.now(), the local clock; the two texts have one format,
\* 'YYYY-MM-DD HH:MM:SS', and compare as the instants they name.
SqliteCutoff(utcnow, days) == utcnow - days * Day

\* WHERE processed_at >= datetime('now', '-N days') at local time t; get_stats
\* has no WHERE clause when `days` is None or 0.
Where(rows, days, t, offset) ==
    IF days = <<>> \/ days = <<0>> THEN rows
    ELSE {r \in rows : r.processed_at >= SqliteCutoff(t - offset, days[1])}

MinOf(S) == CHOOSE x \in S : \A y \in S : x <= y
MaxOf(S) == CHOOSE x \in S : \A y \in S : y <= x

\* date_from.split()[0]: the date of a timestamp
DateOf(t) == t \div Day

\* A count of the relevant rows that leaves the WHERE clause out.
CountRelevantOfAll(rows, selected) == Cardinality({r \in rows : r.is_relevant})

\* SELECT COUNT(*) FROM papers {where_clause} AND/WHERE is_relevant = TRUE
CountRelevant(rows, selected) == Cardinality({r \in selected : r.is_relevant})

\* PaperDatabase.get_stats(days) at local time t
get_stats(db, days, t, offset) ==
    LET selected == Where(db.rows, days, t, offset)
        total == Cardinality(selected)
        relevant == CountRelevant(db.rows, selected)
        stamps == {r.processed_at : r \in selected}
    IN  [total_papers      |-> total,
         relevant_papers   |-> relevant,
         irrelevant_papers |-> total - relevant,
         num_feeds         |-> Cardinality({r.feed_url : r \in selected}),
         date_from         |-> IF stamps = {} THEN <<>> ELSE <<DateOf(MinOf(stamps))>>,
         date_to           |-> IF stamps = {} THEN <<>> ELSE <<DateOf(MaxOf(stamps))>>]

\* ORDER BY processed_at DESC; rows with equal processed_at in rowid order
RECURSIVE OrderByProcessedAtDesc(_)
OrderByProcessedAtDesc(rows) ==
    IF rows = {} THEN <<>>
    ELSE LET r == CHOOSE x \in rows :
                     \A y \in rows :
                         \/ y.processed_at < x.processed_at
                         \/ y.processed_at = x.processed_at /\ y.id >= x.id
         IN  <<r>> \o OrderByProcessedAtDesc(rows \ {r})

\* PaperDatabase.get_recent_relevant(days) at local time t
get_recent_relevant(db, days, t, offset) ==
    OrderByProcessedAtDesc({r \in Where(db.rows, days, t, offset) : r.is_relevant})

\* The arguments of the mark_processed call for the n-th paper.
QueryArgs(n) ==
    { [feed_url |-> "f1", paper_url |-> "p" \o ToString(n), title |-> "T1",
       is_relevant |-> TRUE, summary |-> "s1", authors |-> "A1", source |-> "S1",
       feed_group |-> "high-quality", field_match |-> TRUE, method_match |-> FALSE],
      [feed_url |-> "f2", paper_url |-> "p" \o ToString(n), title |-> "T2",
       is_relevant |-> FALSE, summary |-> "s2", authors |-> "A2", source |-> "S2",
       feed_group |-> "default", field_match |-> TRUE, method_match |-> FALSE] }

QueryInit ==
    /\ InitStore /\ schema = {}
    /\ tz \in Offsets
    /\ presented = NoEntries
    /\ InitRun
    /\ arg = <<>>
    /\ ret = <<>>

QueryConstruct ==
    /\ ret = <<>>
    /\ ~handle
    /\ Construct
    /\ UNCHANGED runVars
    /\ UNCHANGED fnVars

\* db.mark_processed(...) for a paper not yet in the table
QueryRecord ==
    /\ ret = <<>>
    /\ handle
    /\ seq < MaxRows
    /\ \E a \in QueryArgs(seq + 1) :
          /\ papers' = InsertOrReplace(papers, NewRow(a, seq + 1, now))
          /\ recorded' = recorded \cup {a.paper_url}
    /\ seq' = seq + 1
    /\ ncalls' = ncalls + 1
    /\ UNCHANGED <<schema, now, tz, txn, lock, handle, openedAt, calls>>
    /\ UNCHANGED runVars
    /\ UNCHANGED fnVars

QueryTick ==
    /\ ret = <<>>
    /\ now < MaxClock
    /\ now' = now + 1
    /\ UNCHANGED <<schema, papers, seq, tz, txn, lock, handle, openedAt, calls, recorded, ncalls>>
    /\ UNCHANGED runVars
    /\ UNCHANGED fnVars

\* stats = db.get_stats(days)
QueryStats ==
    /\ ret = <<>>
    /\ handle
    /\ \E days \in StatsDays :
          /\ arg' = [op |-> "get_stats", days |-> days]
          /\ ret' = <<get_stats(CurrentDb, days, now, tz)>>
    /\ UNCHANGED storeVars
    /\ UNCHANGED runVars

\* papers = db.get_recent_relevant(days=days)
QueryRecent ==
    /\ ret = <<>>
    /\ handle
    /\ \E days \in ReportDays :
          /\ arg' = [op |-> "get_recent_relevant", days |-> days]
          /\ ret' = <<get_recent_relevant(CurrentDb, days, now, tz)>>
    /\ UNCHANGED storeVars
    /\ UNCHANGED runVars

QueryNext == QueryConstruct \/ QueryRecord \/ QueryTick \/ QueryStats \/ QueryRecent

SpecQuery == QueryInit /\ [][QueryNext]_vars

\* ------------------- SpecCommand: the run command up to backend selection
\* llm.provider of config.yaml: the three supported names and another
Providers == {"claude", "openai", "gemini", "other"}

\* The keys of the api_keys section.
KeyNames == {"anthropic", "openai", "google"}

\* An api key as load_config leaves it: absent (None is <<>>), empty, the
\* placeholder ${K} that expand_env_vars could not expand, or a key.
Placeholder == <<"$", "{", "K", "}">>
Credentials == { <<>>, << <<>> >>, <<Placeholder>>, << <<"s", "k">> >> }

\* llm.model: absent, or a model name
Models == { <<>>, << <<"m">> >> }

Configs == [provider : Providers, api_keys : [KeyNames -> Credentials], model : Models]

\* dict.get(key)
DictGet(d, k) == IF k \in DOMAIN d THEN d[k] ELSE <<>>

\* main.py 105-109
api_key_map(config) ==
    [claude |-> config.api_keys["anthropic"],
     openai |-> config.api_keys["openai"],
     gemini |-> config.api_keys["google"]]

\* A check that lets every key through.
KeyConfiguredAny(api_key) == TRUE

\* main.py 112: not (not api_key or api_key.startswith("${"))
KeyConfigured(api_key) ==
    ~(api_key = <<>> \/ api_key[1] = <<>> \/ startswith(api_key[1], <<"$", "{">>))

\* llm/__init__.py 9: def get_llm(provider: str, api_key: str)
GetLlmParameters == {"provider", "api_key"}

\* main.py 117: get_llm(provider, api_key, model=model)
CallKeywords == {"model"}

\* llm/__init__.py 25-29
providers == [claude |-> "ClaudeLLM", openai |-> "OpenAILLM", gemini |-> "GeminiLLM"]

\* A call of get_llm with two positional arguments and the keyword arguments
\* `keywords`: Python raises TypeError for a keyword that is no parameter,
\* before the body runs.
get_llm(provider, api_key, keywords) ==
    IF ~(keywords \subseteq GetLlmParameters)
    THEN [raised |-> "TypeError", variant |-> ""]
    ELSE IF provider \notin DOMAIN providers
    THEN [raised |-> "ValueError", variant |-> ""]
    ELSE [raised |-> "", variant |-> providers[provider]]

\* main.py 75-118: the command builds the store handle, reads the provider and
\* its key, exits with "API key for ... not configured", or calls get_llm; an
\* exception of get_llm is not caught and ends the command.
RunSelect ==
    /\ pc = "idle"
    /\ run < MaxRuns
    /\ \E config \in Configs :
          LET db == init_db([schema |-> schema, rows |-> papers])
              api_key == DictGet(api_key_map(config), config.provider)
              llm == get_llm(config.provider, api_key, CallKeywords)
          IN  /\ schema' = db.schema
              /\ papers' = db.rows
              /\ arg' = <<config>>
              /\ IF ~KeyConfigured(api_key)
                 THEN /\ status' = "config_error"
                      /\ ret' = <<>>
                      /\ pc' = "idle"
                 ELSE /\ status' = IF llm.raised # "" THEN llm.raised ELSE "running"
                      /\ ret' = <<llm>>
                      /\ pc' = IF llm.raised # "" THEN "idle" ELSE "fetch"
    /\ run' = run + 1
    /\ UNCHANGED <<seq, now, tz, txn, lock, handle, openedAt, calls, recorded, ncalls>>
    /\ UNCHANGED <<all_papers, cutoff_date, found_papers, max_per_feed, new_papers,
                   idx, relevant_papers, dry_run, presented, email, seenBefore,
                   outcomes, okCalls>>

CommandNext == RunSelect \/ Tick

SpecCommand == Init /\ [][CommandNext]_vars

\* ------- SpecConcurrent: two processes record the same identity at once
\* Each process runs mark_processed (db.py 122-131) on its own connection:
\* the INSERT OR REPLACE opens the connection's transaction and takes SQLite's
\* write lock on the file, conn.commit() installs the transaction's change and
\* releases the lock. A connection that finds the lock held waits, and raises
\* sqlite3.OperationalError (database is locked) when its timeout passes.

\* The identity both processes record.
SharedUrl == "u1"

\* sqlite3: a write transaction starts when no other connection holds the lock
CanWrite(l, p) == l = 0

\* The first process builds its PaperDatabase; the constructor of the second
\* finds the table as the first left it.
ConcOpen ==
    /\ ~handle
    /\ Construct
    /\ UNCHANGED runVars
    /\ UNCHANGED fnVars

\* mark_processed(**a) is entered: sqlite3.connect(self.db_path)
ConcCall(p) ==
    /\ handle
    /\ txn[p].pc = "none"
    /\ \E a \in {x \in StoreArgs : x.paper_url = SharedUrl} :
          txn' = [txn EXCEPT ![p] = [pc |-> "called", a |-> <<a>>, row |-> <<>>]]
    /\ UNCHANGED <<schema, papers, seq, now, tz, lock, handle, openedAt,
                   calls, recorded, ncalls>>
    /\ UNCHANGED runVars
    /\ UNCHANGED fnVars

\* conn.execute(INSERT OR REPLACE ...): the row gets the next AUTOINCREMENT id
\* and datetime.now(), inside the transaction
ConcExecute(p) ==
    /\ txn[p].pc = "called"
    /\ CanWrite(lock, p)
    /\ ~InsertRaises(schema)
    /\ lock' = p
    /\ txn' = [txn EXCEPT ![p].pc = "inserted",
                          ![p].row = <<NewRow(txn[p].a[1], seq + 1, now)>>]
    /\ UNCHANGED <<schema, papers, seq, now, tz, handle, openedAt, calls, recorded, ncalls>>
    /\ UNCHANGED runVars
    /\ UNCHANGED fnVars

\* conn.execute finds the lock held for longer than the timeout and raises
ConcBusy(p) ==
    /\ txn[p].pc = "called"
    /\ ~CanWrite(lock, p)
    /\ txn' = [txn EXCEPT ![p].pc = "raised"]
    /\ UNCHANGED <<schema, papers, seq, now, tz, lock, handle, openedAt,
                   calls, recorded, ncalls>>
    /\ UNCHANGED runVars
    /\ UNCHANGED fnVars

\* conn.commit(), and the call returns
ConcCommit(p) ==
    /\ txn[p].pc = "inserted"
    /\ lock = p
    /\ papers' = InsertOrReplace(papers, txn[p].row[1])
    /\ seq' = seq + 1
    /\ lock' = 0
    /\ txn' = [txn EXCEPT ![p].pc = "returned"]
    /\ calls' = [calls EXCEPT ![SharedUrl] = Append(@, txn[p].a[1])]
    /\ recorded' = recorded \cup {SharedUrl}
    /\ ncalls' = ncalls + 1
    /\ UNCHANGED <<schema, now, tz, handle, openedAt>>
    /\ UNCHANGED runVars
    /\ UNCHANGED fnVars

ConcNext ==
    \/ ConcOpen
    \/ \E p \in Procs : ConcCall(p)
    \/ \E p \in Procs : ConcExecute(p)
    \/ \E p \in Procs : ConcBusy(p)
    \/ \E p \in Procs : ConcCommit(p)
    \/ Tick

SpecConcurrent == Init /\ [][ConcNext]_vars

\* ----------- SpecPipeline: run, stats and send-report commands in any order
\* main.py 307-322: the stats command builds the store handle and echoes
\* db.get_stats(); what it leaves behind is the table as _init_db leaves it.
Stats ==
    /\ pc = "idle"
    /\ schema' = init_db(CurrentDb).schema
    /\ papers' = init_db(CurrentDb).rows
    /\ UNCHANGED <<seq, now, tz, txn, lock, handle, openedAt, calls, recorded, ncalls>>
    /\ UNCHANGED runVars
    /\ UNCHANGED fnVars

\* send-report --days: the default and a short window
DefaultReportDays == 7
ReportDaysChoices == {1, DefaultReportDays}

\* main.py 325-396: the send-report command builds the store handle, returns
\* when get_recent_relevant finds nothing, when --dry-run is set or when the
\* email section lacks a key, and else calls send_email once.
SendReport ==
    /\ pc = "idle"
    /\ \E days \in ReportDaysChoices, dry \in BOOLEAN, missing \in BOOLEAN :
          LET db == init_db(CurrentDb)
              recent == get_recent_relevant(db, <<days>>, now, tz)
          IN  /\ schema' = db.schema
              /\ papers' = db.rows
              /\ IF recent = <<>> \/ dry \/ missing
                 THEN email' = <<>>
                 ELSE \E success \in SendResults : email' = <<success>>
    /\ UNCHANGED <<seq, now, tz, txn, lock, handle, openedAt, calls, recorded, ncalls>>
    /\ UNCHANGED <<pc, all_papers, cutoff_date, found_papers, max_per_feed,
                   new_papers, idx, relevant_papers, dry_run, presented, run, status,
                   seenBefore, outcomes, okCalls>>
    /\ UNCHANGED fnVars

PipelineNext == Next \/ Stats \/ SendReport

SpecPipeline == Init /\ [][PipelineNext]_vars

\* =================================================================== claims
Last(s) == s[Len(s)]

LinksOf(ps) == {ps[i].link : i \in 1..Len(ps)}

\* C1: after any sequence of mark_processed calls the table holds at most one
\* row per paper_url; that row carries the arguments of the latest call for
\* the paper_url, and is_processed is true for it from the first call on.
C1_UpsertKeepsLatest ==
    \A u \in Links :
        /\ Cardinality(SelectByUrl(papers, u)) <= 1
        /\ calls[u] # <<>> =>
              /\ \E r \in papers : r.paper_url = u /\ ArgsOf(r) = Last(calls[u])
              /\ is_processed(CurrentDb, u).value

\* A paper_url recorded twice, the second time with another verdict.
C1_Witness ==
    \E u \in Links :
        /\ Len(calls[u]) = 2
        /\ calls[u][1].is_relevant # calls[u][2].is_relevant
        /\ Cardinality(SelectByUrl(papers, u)) = 1

\* C2: with a handle constructed, is_processed(u) does not raise and is true
\* exactly for the identities a record was written for; on a store no record
\* was ever written to it is false for every identity.
C2_HasSeenIffRecorded ==
    handle =>
        \A u \in Links :
            /\ ~is_processed(CurrentDb, u).raised
            /\ is_processed(CurrentDb, u).value <=> u \in recorded

\* A handle on a store nothing was written to, one identity asked for.
C2_Witness ==
    /\ handle
    /\ recorded = {}
    /\ ncalls = 0
    /\ \A u \in Links : is_processed(CurrentDb, u) = [raised |-> FALSE, value |-> FALSE]

HasSubstring(hay, needle) ==
    \E i \in 1..(Len(hay) - Len(needle) + 1) :
        \A k \in 1..Len(needle) : hay[i + k - 1] = needle[k]

C4_Policy ==
    ret # <<>> =>
        /\ ret[1] = IF \/ HasSubstring(lower(arg.group), HIGH)
                       \/ HasSubstring(lower(arg.group), QUALITY)
                    THEN arg.field_match \/ arg.method_match
                    ELSE arg.field_match /\ arg.method_match
        /\ arg.group = HighQualityGroup =>
              ret[1] = (arg.field_match \/ arg.method_match)
        /\ arg.group = DefaultGroup =>
              ret[1] = (arg.field_match /\ arg.method_match)

\* An upper-case label with "high" in it admits on the field match alone.
C4_Witness ==
    /\ ret = <<TRUE>>
    /\ arg.group = <<"H", "I", "G", "H">>
    /\ arg.field_match
    /\ ~arg.method_match

\* C5: every record the run writes has is_relevant = decide(field_match,
\* method_match, group) for the values stored with it, and every admitted
\* entry is one whose decision is admit; the is_relevant of the parsed
\* ScreeningResult (field_match or method_match) is not what is stored.
GroupOf(label) == CHOOSE g \in {feed_groups[i].group : i \in 1..Len(feed_groups)} : Join(g) = label

C5_AdmittedIsPolicy ==
    /\ \A u \in Links : \A i \in 1..Len(calls[u]) :
          LET a == calls[u][i]
          IN  a.is_relevant = decide(a.field_match, a.method_match, GroupOf(a.feed_group))
    /\ \A j \in 1..Len(relevant_papers) :
          \E i \in 1..Len(calls[relevant_papers[j].link]) :
              LET a == calls[relevant_papers[j].link][i]
              IN  /\ a.feed_group = relevant_papers[j].group
                  /\ a.summary = relevant_papers[j].summary
                  /\ decide(a.field_match, a.method_match, GroupOf(a.feed_group))

\* A record of the default group with a field match and no method match: the
\* parsed ScreeningResult says relevant, the record says not.
C5_Witness ==
    \E r \in papers :
        /\ r.feed_group = Join(DefaultGroup)
        /\ r.field_match /\ ~r.method_match
        /\ ~r.is_relevant
        /\ calls[r.paper_url] # <<>>

\* C6: a run that is presented with an identity that had a record when the
\* run started screens no paper of that identity (no backend call) and
\* admits none.
C6_SeenNotScreened ==
    /\ LinksOf(new_papers) \cap seenBefore = {}
    /\ LinksOf(relevant_papers) \cap seenBefore = {}

\* The second run fetched an identity the first run recorded, and returned
\* without one more backend call for it.
C6_Witness ==
    /\ run = 2
    /\ \E u \in seenBefore : Len(calls[u]) = 1 /\ okCalls[u] = 1
    /\ pc = "idle"

\* C7: no step of a run writes a row of an identity that had a record when
\* the run started: the row stays as it is, processed_at and id included.
C7_SeenUntouched ==
    [][ \A r \in papers : r.paper_url \in seenBefore' => r \in papers' ]_vars

\* A run that recorded one identity and left the record of another, seen one
\* as it was before the run.
C7_Witness ==
    /\ pc = "notify"
    /\ \E i \in 1..Len(outcomes) : outcomes[i] = "ok"
    /\ \E r \in papers : r.paper_url \in seenBefore /\ r.processed_at < now

\* C8: the backend returns at most once per identity over all runs, and an
\* identity is at most once in the admitted output of a run.
C8_ScreenedAtMostOnce ==
    /\ \A u \in Links : okCalls[u] <= 1
    /\ \A i, j \in 1..Len(relevant_papers) :
          relevant_papers[i].link = relevant_papers[j].link => i = j

\* C9: when one run screens two papers of the same identity, the table holds
\* at most one row of that identity.
C9_OneRowPerIdentity ==
    \A u \in Links : Cardinality(SelectByUrl(papers, u)) <= 1

\* Both papers of one identity were screened and recorded in this run.
C9_Witness ==
    /\ pc = "notify"
    /\ \E i, j \in 1..Len(new_papers) :
          /\ i < j
          /\ new_papers[i].link = new_papers[j].link
          /\ outcomes[i] = "ok" /\ outcomes[j] = "ok"
          /\ Cardinality(SelectByUrl(papers, new_papers[i].link)) = 1

\* C10: after every iteration, failed or not, the loop goes on to the next
\* paper, and it ends only behind the last one; at its end every paper of the
\* run has been screened, and each whose backend call returned has a record.
C10_ErrorIsolated ==
    /\ [][ pc = "screening" /\ outcomes' # outcomes =>
              IF idx < Len(new_papers)
              THEN pc' = "screening" /\ idx' = idx + 1
              ELSE pc' = "notify" ]_vars
    /\ [](pc = "notify" =>
              /\ Len(outcomes) = Len(new_papers)
              /\ \A i \in 1..Len(outcomes) :
                    outcomes[i] = "ok" =>
                        is_processed(CurrentDb, new_papers[i].link).value)

\* The backend failed for one paper and the next one was screened and recorded.
C10_Witness ==
    /\ pc = "notify"
    /\ \E i, j \in 1..Len(outcomes) :
          i < j /\ outcomes[i] = "error" /\ outcomes[j] = "ok"

\* C11: an iteration whose backend call raises writes nothing: the table, the
\* AUTOINCREMENT sequence and the record calls are as before, is_processed
\* answers as before for every identity, and the admitted output is as before.
C11_NoRecordOnError ==
    [][ outcomes' = Append(outcomes, "error") =>
           /\ papers' = papers
           /\ seq' = seq
           /\ calls' = calls
           /\ relevant_papers' = relevant_papers
           /\ \A u \in Links :
                 is_processed([schema |-> schema', rows |-> papers'], u)
                    = is_processed(CurrentDb, u) ]_vars

\* The loop is over; the backend call of one paper failed, and its identity
\* is neither processed nor admitted.
C11_Witness ==
    /\ pc = "notify"
    /\ \E i \in 1..Len(outcomes) :
          /\ outcomes[i] = "error"
          /\ ~is_processed(CurrentDb, new_papers[i].link).value
          /\ new_papers[i].link \notin LinksOf(relevant_papers)

\* C12: when the INSERT of mark_processed raises, the command ends there: the
\* loop screens no further paper and does not go on to the notification.
C12_StoreErrorFatal ==
    (\E i \in 1..Len(outcomes) : outcomes[i] = "store_error")
        => pc \notin {"screening", "notify"}

\* C13: with --max-per-feed N > 0 the papers screened are, for every feed, the
\* first min(N, k) of its k recent unprocessed papers, in the order they were
\* found; with N = 0 they are all of them. A paper left out has no backend
\* call and no record in that run, and is_processed stays false for it.
FromFeed(ps, f) == SelectSeq(ps, LAMBDA p : p.feed_url = f)

Min(a, b) == IF a <= b THEN a ELSE b

\* Positions of found_papers with fewer than N earlier papers of the same feed.
KeptPositions ==
    {i \in 1..Len(found_papers) :
        \/ max_per_feed = 0
        \/ Cardinality({j \in 1..(i - 1) :
                            found_papers[j].feed_url = found_papers[i].feed_url})
              < max_per_feed}

RECURSIVE At(_, _, _)
At(s, keep, i) ==
    IF i > Len(s) THEN <<>>
    ELSE (IF i \in keep THEN <<s[i]>> ELSE <<>>) \o At(s, keep, i + 1)

LeftOut == LinksOf(found_papers) \ LinksOf(new_papers)

C13_PerFeedCap ==
    /\ [](/\ new_papers = At(found_papers, KeptPositions, 1)
          /\ \A f \in Feeds :
                LET k == Len(FromFeed(found_papers, f))
                IN  /\ max_per_feed > 0 =>
                          FromFeed(new_papers, f)
                             = SubSeq(FromFeed(found_papers, f), 1, Min(max_per_feed, k))
                    /\ max_per_feed = 0 => FromFeed(new_papers, f) = FromFeed(found_papers, f)
          /\ Len(outcomes) <= Len(new_papers)
          /\ \A u \in LeftOut : ~is_processed(CurrentDb, u).value)
    /\ [][ \A u \in LeftOut :
              calls'[u] = calls[u] /\ okCalls'[u] = okCalls[u] ]_vars

\* Cap 1 and a feed with two papers to screen: the loop is over, the first
\* was screened, the second is neither screened nor processed.
C13_Witness ==
    /\ pc = "notify"
    /\ max_per_feed = 1
    /\ \E f \in Feeds :
          /\ Len(FromFeed(found_papers, f)) = 2
          /\ Len(FromFeed(new_papers, f)) = 1
    /\ outcomes = <<"ok">>
    /\ \E u \in LeftOut : ~is_processed(CurrentDb, u).value

\* C14: a fetched paper whose published date is known and before cutoff_date
\* is not among the papers checked against the store nor among those screened,
\* and the run makes no backend call and writes no record for its identity; a
\* fetched paper without a published date is left out only when its identity
\* is already processed (or by the cap), whatever --days is.
IsStale(p) == p.published # <<>> /\ p.published[1] < cutoff_date[1]

StaleLinks == {all_papers[i].link : i \in {j \in 1..Len(all_papers) : IsStale(all_papers[j])}}

Elements(s) == {s[i] : i \in 1..Len(s)}

C14_Staleness ==
    /\ [](cutoff_date # <<>> =>
             /\ \A i \in 1..Len(found_papers) : ~IsStale(found_papers[i])
             /\ \A i \in 1..Len(new_papers) : ~IsStale(new_papers[i])
             /\ \A i \in 1..Len(all_papers) :
                   all_papers[i].published = <<>> =>
                       \/ all_papers[i] \in Elements(found_papers)
                       \/ all_papers[i].link \in seenBefore)
    /\ [][ cutoff_date # <<>> =>
              \A u \in StaleLinks :
                  /\ calls'[u] = calls[u]
                  /\ okCalls'[u] = okCalls[u]
                  /\ SelectByUrl(papers', u) = SelectByUrl(papers, u) ]_vars

\* A run fetched a paper dated before the cutoff and an undated one: only the
\* undated one was screened and recorded.
C14_Witness ==
    /\ pc = "notify"
    /\ cutoff_date = <<1 - Day>>
    /\ StaleLinks = {"u1"}
    /\ LinksOf(new_papers) = {"u2"}
    /\ okCalls["u1"] = 0
    /\ outcomes[1] = "ok"
    /\ is_processed(CurrentDb, "u2").value

\* C15: an iteration whose backend call returns makes one mark_processed
\* call, with the values parsed from the response, the decision computed from
\* them and the paper's metadata; the records written by a run are as many as
\* the iterations that completed, so none is written ahead of its iteration.
ExpectedResults ==
    { [field_match |-> TRUE,  method_match |-> TRUE,  summary |-> "Problem: X | Method: Y"],
      [field_match |-> TRUE,  method_match |-> FALSE, summary |-> "Problem: X"],
      [field_match |-> FALSE, method_match |-> FALSE, summary |-> "Not related"] }

ExpectedDecision(e, feed_url) ==
    IF feed_url = "f1" THEN e.field_match \/ e.method_match
    ELSE e.field_match /\ e.method_match

CountOk(s) == Cardinality({i \in 1..Len(s) : s[i] = "ok"})

C15_RecordedOnceAfterPolicy ==
    /\ [][ okCalls' # okCalls =>
              LET paper == new_papers[idx]
                  u == paper.link
              IN  /\ ncalls' = ncalls + 1
                  /\ \A v \in Links \ {u} : calls'[v] = calls[v]
                  /\ Len(calls'[u]) = Len(calls[u]) + 1
                  /\ SubSeq(calls'[u], 1, Len(calls[u])) = calls[u]
                  /\ \E e \in ExpectedResults :
                        Last(calls'[u]) =
                            [feed_url |-> paper.feed_url, paper_url |-> u,
                             title |-> paper.title,
                             is_relevant |-> ExpectedDecision(e, paper.feed_url),
                             summary |-> e.summary, authors |-> paper.authors,
                             source |-> paper.source,
                             feed_group |-> Join(paper.feed_group),
                             field_match |-> e.field_match,
                             method_match |-> e.method_match]
                  /\ \E r \in papers' : ArgsOf(r) = Last(calls'[u]) /\ r.id = seq' ]_vars
    /\ [](pc \in {"screening", "notify"} =>
              /\ seq - openedAt = CountOk(outcomes)
              /\ Len(outcomes) = idx - 1)

\* The loop is over; a paper of the default group whose response had a field
\* match only was recorded once by this run, as not relevant.
C15_Witness ==
    /\ pc = "notify"
    /\ outcomes = <<"ok">>
    /\ seq = openedAt + 1
    /\ \E r \in papers :
          /\ r.id = seq
          /\ r.paper_url = new_papers[1].link
          /\ r.feed_url = "f2"
          /\ r.field_match /\ ~r.method_match /\ ~r.is_relevant
          /\ r.summary = "Problem: X"

\* C16: relevant_papers is built in the order of the loop: an iteration appends
\* the entry of its paper (title, source, authors, link, group, summary) when
\* the backend call returned and the decision is admit, and leaves the list as
\* it is otherwise; every entry is of a paper the loop has screened.
EntryOf(paper, a) ==
    [title |-> paper.title, source |-> paper.source, authors |-> paper.authors,
     link |-> paper.link, group |-> Join(paper.feed_group), summary |-> a.summary]

C16_AdmittedOutput ==
    /\ [][ /\ pc = "idle" /\ pc' # "idle" => relevant_papers' = <<>>
           /\ pc = "screening" =>
                 IF okCalls' # okCalls
                 THEN LET paper == new_papers[idx]
                          a == Last(calls'[paper.link])
                      IN  relevant_papers' =
                             IF ExpectedDecision(a, paper.feed_url)
                             THEN Append(relevant_papers, EntryOf(paper, a))
                             ELSE relevant_papers
                 ELSE relevant_papers' = relevant_papers ]_vars
    /\ [](\A j \in 1..Len(relevant_papers) :
              /\ \E i \in 1..Len(outcomes) :
                    /\ outcomes[i] = "ok"
                    /\ relevant_papers[j].link = new_papers[i].link
                    /\ relevant_papers[j].title = new_papers[i].title
                    /\ relevant_papers[j].source = new_papers[i].source
                    /\ relevant_papers[j].authors = new_papers[i].authors
                    /\ relevant_papers[j].group = Join(new_papers[i].feed_group)
              /\ relevant_papers[j].link \notin seenBefore
              /\ cutoff_date # <<>> => relevant_papers[j].link \notin StaleLinks
              /\ relevant_papers[j].summary \in {e.summary : e \in ExpectedResults})

\* Two papers were screened: the first was rejected, the backend call of no
\* paper failed, and the output is the entry of the second.
C16_Witness ==
    /\ pc = "notify"
    /\ outcomes = <<"ok", "ok">>
    /\ new_papers[1].link # new_papers[2].link
    /\ Len(relevant_papers) = 1
    /\ relevant_papers[1].link = new_papers[2].link
    /\ relevant_papers[1].group = Join(new_papers[2].feed_group)
    /\ relevant_papers[1].summary = "Problem: X"

\* The lines of a response, each trimmed.
StrippedLines(r) == [i \in 1..Len(split_lines(r)) |-> strip(split_lines(r)[i])]

FieldMarkers == {"FIELD_MATCH:", "field_match:", "Field_Match:"}
MethodMarkers == {"METHOD_MATCH:", "method_match:", "Method_Match:"}
SummaryMarkers == {"SUMMARY:", "summary:", "Summary:"}

\* The lines of r that begin with one of the markers.
MarkedLines(r, markers) ==
    {i \in 1..Len(StrippedLines(r)) :
        StrippedLines(r)[i] # <<>> /\ Head(StrippedLines(r)[i]) \in markers}

\* The trimmed, lower-cased value behind the marker of a line.
LineValue(l) == Join(lower(strip(Tail(l))))

LastOf(S) == CHOOSE i \in S : \A j \in S : j <= i

NoMarker(r) ==
    /\ MarkedLines(r, FieldMarkers \cup MethodMarkers \cup SummaryMarkers) = {}
    /\ FirstIndex(r, "SUMMARY:") = 0

\* C17, as amended: field_match is true exactly when the LAST line beginning
\* with FIELD_MATCH: (in any case) has a trimmed value that is, in any case,
\* one of yes, true, 1, and false when there is no such line; likewise
\* method_match with METHOD_MATCH:. A response with no marker gives
\* (false, false, "").
C17_LastMarkerLine ==
    ret # <<>> =>
        LET ls == StrippedLines(arg)
            F == MarkedLines(arg, FieldMarkers)
            M == MarkedLines(arg, MethodMarkers)
        IN  /\ ret[1].field_match = (F # {} /\ LineValue(ls[LastOf(F)]) \in Truthy)
            /\ ret[1].method_match = (M # {} /\ LineValue(ls[LastOf(M)]) \in Truthy)
            /\ NoMarker(arg) =>
                  /\ ~ret[1].field_match /\ ~ret[1].method_match
                  /\ ret[1].summary = ""

\* A response with a FIELD_MATCH line saying yes and a later one saying no
\* parses to no field match.
C17_Witness ==
    /\ ret # <<>>
    /\ \E i, j \in MarkedLines(arg, FieldMarkers) :
          /\ i < j
          /\ j = LastOf(MarkedLines(arg, FieldMarkers))
          /\ LineValue(StrippedLines(arg)[i]) \in Truthy
          /\ LineValue(StrippedLines(arg)[j]) \notin Truthy
    /\ ~ret[1].field_match

\* C17, as stated: field_match is true exactly when SOME line beginning with
\* FIELD_MATCH: has a value in yes, true, 1; likewise method_match.
C17_AnyMarkerLine ==
    ret # <<>> =>
        LET ls == StrippedLines(arg)
        IN  /\ ret[1].field_match =
                  (\E i \in MarkedLines(arg, FieldMarkers) : LineValue(ls[i]) \in Truthy)
            /\ ret[1].method_match =
                  (\E i \in MarkedLines(arg, MethodMarkers) : LineValue(ls[i]) \in Truthy)
            /\ NoMarker(arg) =>
                  /\ ~ret[1].field_match /\ ~ret[1].method_match
                  /\ ret[1].summary = ""

\* C18: the summary is what follows the first SUMMARY: of the response,
\* trimmed, with the lines after it; it is "" when the response has no
\* SUMMARY: in it.
C18_SummaryAfterToken ==
    ret # <<>> =>
        LET k == FirstIndex(arg, "SUMMARY:")
        IN  ret[1].summary =
               IF k # 0 THEN Join(strip(SubSeq(arg, k + 1, Len(arg)))) ELSE ""

\* C19: get_stats returns, over the rows its WHERE clause selects, their
\* number, the number of them with is_relevant, the difference of the two and
\* the number of distinct feed_url; when no row is selected the counts are 0
\* and date_from and date_to are None; with 3 relevant and 2 other rows and
\* no `days` it returns total_papers 5 and relevant_papers 3.
C19_Stats ==
    (ret # <<>> /\ arg.op = "get_stats") =>
        LET selected == Where(papers, arg.days, now, tz)
            st == ret[1]
        IN  /\ st.total_papers = Cardinality(selected)
            /\ st.relevant_papers = Cardinality({r \in selected : r.is_relevant})
            /\ st.irrelevant_papers = st.total_papers - st.relevant_papers
            /\ st.num_feeds = Cardinality({r.feed_url : r \in selected})
            /\ selected = {} =>
                  /\ st.total_papers = 0 /\ st.relevant_papers = 0
                  /\ st.irrelevant_papers = 0 /\ st.num_feeds = 0
                  /\ st.date_from = <<>> /\ st.date_to = <<>>
            /\ ( /\ arg.days = <<>>
                 /\ Cardinality({r \in papers : r.is_relevant}) = 3
                 /\ Cardinality({r \in papers : ~r.is_relevant}) = 2 )
                  => st.total_papers = 5 /\ st.relevant_papers = 3

\* get_stats() on a table of 3 relevant and 2 other rows.
C19_Witness ==
    /\ ret # <<>>
    /\ arg = [op |-> "get_stats", days |-> <<>>]
    /\ Cardinality({r \in papers : r.is_relevant}) = 3
    /\ Cardinality({r \in papers : ~r.is_relevant}) = 2
    /\ ret[1].total_papers = 5
    /\ ret[1].relevant_papers = 3
    /\ ret[1].irrelevant_papers = 2
    /\ ret[1].num_feeds = 2

\* C20: get_recent_relevant(days) returns the rows with is_relevant whose
\* processed_at is at most `days` days before the call, each once, newest
\* first; it returns the empty list when there is none.
C20_RecentAdmittedInWindow ==
    (ret # <<>> /\ arg.op = "get_recent_relevant") =>
        LET rows == ret[1]
        IN  /\ Elements(rows) =
                  {r \in papers : r.is_relevant /\ r.processed_at >= now - arg.days[1] * Day}
            /\ Len(rows) = Cardinality(Elements(rows))
            /\ \A i, j \in 1..Len(rows) :
                  i < j => rows[i].processed_at >= rows[j].processed_at

\* C26: send_email is called at most once per run command, only from the
\* notification step, which is reached after every paper of the run has its
\* outcome, and only when the admitted papers are not empty and the run is not
\* a dry run; its boolean result, False too, ends the command (no second
\* call), and the step leaves the table, its schema and the row counter alone.
C26_NotifyOnce ==
    [][ email' # email /\ email' # <<>> =>
          /\ pc = "notify"
          /\ Len(outcomes) = Len(new_papers)
          /\ relevant_papers # <<>>
          /\ ~dry_run
          /\ email = <<>>
          /\ Len(email') = 1
          /\ email'[1] \in BOOLEAN
          /\ pc' = "idle"
          /\ papers' = papers
          /\ schema' = schema
          /\ seq' = seq ]_vars

\* A command has returned after a send that failed.
C26_Witness ==
    /\ pc = "idle"
    /\ status = "completed"
    /\ email = <<FALSE>>
    /\ papers # {}

\* C28: within one run command llm.screen_paper, and with it _call_api, is
\* called once for each paper of new_papers, in order: every call, returned or
\* raised, moves the loop to the next paper, so that the calls made are as many
\* as the papers passed and, at the notification, as many as new_papers.
C28_OneCallPerItem ==
    /\ [][ outcomes' # outcomes /\ outcomes' # <<>> =>
             /\ pc = "screening"
             /\ Len(outcomes') = Len(outcomes) + 1
             /\ idx' = idx + 1
             /\ new_papers' = new_papers ]_vars
    /\ [](pc \in {"screening", "notify"} => Len(outcomes) = idx - 1)
    /\ [](pc = "notify" => Len(outcomes) = Len(new_papers))

\* A run of two papers is at the notification: the call for the first raised.
C28_Witness ==
    /\ pc = "notify"
    /\ Len(new_papers) = 2
    /\ outcomes = <<"error", "ok">>

\* The credential the run command looks up for a provider name.
KeyNameOf(provider) ==
    CASE provider = "claude" -> "anthropic"
      [] provider = "openai" -> "openai"
      [] provider = "gemini" -> "google"

Supported(provider) == provider \in {"claude", "openai", "gemini"}

HasCredential(config) ==
    /\ Supported(config.provider)
    /\ config.api_keys[KeyNameOf(config.provider)] \notin { <<>>, << <<>> >>, <<Placeholder>> }

\* C21: a run command whose provider name is unknown, or whose credential for
\* the provider is absent, empty or an unexpanded ${...} placeholder, ends
\* with the configuration error: no backend is selected, nothing is fetched,
\* no paper is screened and the rows of the table are as they were.
C21_ConfigErrorFirst ==
    [][ run' # run /\ ~HasCredential(arg'[1]) =>
          /\ status' = "config_error"
          /\ pc' = "idle"
          /\ ret' = <<>>
          /\ all_papers' = <<>>
          /\ new_papers' = <<>>
          /\ outcomes' = <<>>
          /\ okCalls' = okCalls
          /\ papers' = papers
          /\ seq' = seq ]_vars

\* A command has ended on an unknown provider, another on a placeholder key.
C21_Witness ==
    /\ run = 2
    /\ status = "config_error"
    /\ pc = "idle"
    /\ \/ arg[1].provider = "other"
       \/ arg[1].provider = "claude" /\ arg[1].api_keys["anthropic"] = <<Placeholder>>

\* C27: a run command with a supported provider name and a configured
\* credential, with or without llm.model, selects that provider's variant and
\* goes on to fetch.
C27_SelectionSucceeds ==
    (arg # <<>> /\ run > 0 /\ HasCredential(arg[1])) =>
        /\ ret = <<[raised |-> "", variant |-> providers[arg[1].provider]]>>
        /\ pc = "fetch"

\* Both processes are out of mark_processed, returned or raised.
ConcDone == \A p \in Procs : txn[p].pc \in {"returned", "raised"}

\* C22: when two processes call mark_processed for the same paper_url at the
\* same time, the table never holds two rows of that paper_url, and once both
\* calls are over it holds exactly one, which is, column by column, the row
\* that one of the calls that returned inserted.
C22_AtomicUpsert ==
    /\ Cardinality(SelectByUrl(papers, SharedUrl)) <= 1
    /\ ConcDone =>
          /\ Cardinality(SelectByUrl(papers, SharedUrl)) = 1
          /\ \E p \in Procs :
                /\ txn[p].pc = "returned"
                /\ SelectByUrl(papers, SharedUrl) = {txn[p].row[1]}
                /\ ArgsOf(txn[p].row[1]) = txn[p].a[1]

\* Both calls returned, with different arguments, over a row that was there.
C22_Witness ==
    /\ \A p \in Procs : txn[p].pc = "returned"
    /\ txn[1].a # txn[2].a
    /\ seq = 3
    /\ SelectByUrl(papers, SharedUrl) = {txn[1].row[1]}
    /\ txn[1].row[1].id = 3

\* The links of the papers of the run whose record call has returned.
ReturnedLinks ==
    {new_papers[i].link : i \in {j \in 1..Len(outcomes) : outcomes[j] = "ok"}}

\* The rows written since the store handle of the run was built.
RowsOfRun(rows) == {r \in rows : r.id > openedAt}

\* C23: when a run is aborted between two papers, during the backend call of a
\* paper or after the last paper, the rows the run has written are those of
\* the papers whose record call had returned: one per identity, each with
\* every column as the latest such call gave it; the table has no row written
\* for the paper in flight or for a later paper, and the abort leaves the
\* rows from before the run as they were.
C23_AbortLeavesCompleteRecords ==
    [][ (status' = "aborted" /\ pc # "idle") =>
          /\ {r.paper_url : r \in RowsOfRun(papers')} = ReturnedLinks
          /\ \A r \in RowsOfRun(papers') :
                /\ AllColumns \subseteq schema'
                /\ calls[r.paper_url] # <<>>
                /\ r = NewRow(Last(calls[r.paper_url]), r.id, r.processed_at)
          /\ \A i \in idx..Len(new_papers) :
                new_papers[i].link \notin ReturnedLinks =>
                    SelectByUrl(papers', new_papers[i].link) = {}
          /\ {r \in papers' : r.id <= openedAt} = {r \in papers : r.id <= openedAt} ]_vars

\* A run of two papers was aborted during the call for the second: the first
\* is recorded and the second is not.
C23_Witness ==
    /\ status = "aborted"
    /\ pc = "idle"
    /\ Len(new_papers) = 2
    /\ idx = 2
    /\ outcomes = <<"ok">>
    /\ SelectByUrl(papers, new_papers[1].link) # {}
    /\ SelectByUrl(papers, new_papers[2].link) = {}

\* The identities the table has a row for.
Identities(rows) == {r.paper_url : r \in rows}

\* C24: over run, stats and send-report commands in any order, no step takes
\* an identity out of the table, and a step that changes the rows is the
\* iteration of a run whose backend call returned: it changes the row of the
\* paper the loop is at, and that row only.
C24_NeverDeleted ==
    /\ [][ Identities(papers) \subseteq Identities(papers') ]_vars
    /\ [][ papers' # papers =>
             /\ pc = "screening"
             /\ outcomes' = Append(outcomes, "ok")
             /\ okCalls'[new_papers[idx].link] = okCalls[new_papers[idx].link] + 1
             /\ SelectByUrl(papers', new_papers[idx].link) # {}
             /\ {r \in papers' : r.paper_url # new_papers[idx].link}
                   = {r \in papers : r.paper_url # new_papers[idx].link} ]_vars

\* A run recorded an admitted paper, a later run found nothing new, and a
\* send-report command then sent its report: the rows are there.
C24_Witness ==
    /\ run = 2
    /\ status = "no_new_papers"
    /\ email = <<TRUE>>
    /\ ncalls = 2
    /\ Identities(papers) = Links

\* Positions of all_papers that pass the date filter and had no record.
FreshPositions ==
    {i \in 1..Len(all_papers) :
        ~IsStale(all_papers[i]) /\ all_papers[i].link \notin seenBefore}

\* The position in found_papers of the paper at a fresh position of all_papers.
FoundIndex(i) == Cardinality({j \in FreshPositions : j <= i})

\* The position in new_papers of the paper at position i of all_papers, 0 when
\* the run does not screen it.
ScreenIndex(i) ==
    IF i \in FreshPositions /\ FoundIndex(i) \in KeptPositions
    THEN Cardinality({j \in KeptPositions : j <= FoundIndex(i)})
    ELSE 0

\* The arguments of the record call of the k-th screened paper.
CallOf(k) ==
    LET u == new_papers[k].link
        later == {j \in (k + 1)..Len(outcomes) :
                     outcomes[j] = "ok" /\ new_papers[j].link = u}
    IN  calls[u][Len(calls[u]) - Cardinality(later)]

TerminalStates ==
    {"skipped-duplicate", "skipped-stale", "admitted", "rejected", "errored"}

\* How the run left the paper at position i of all_papers.
InState(f, i) ==
    LET p == all_papers[i]
        k == ScreenIndex(i)
    IN  CASE f = "skipped-stale" -> IsStale(p)
          [] f = "skipped-duplicate" -> ~IsStale(p) /\ p.link \in seenBefore
          [] f = "omitted-by-cap" -> i \in FreshPositions /\ k = 0
          [] f = "errored" -> k > 0 /\ outcomes[k] = "error"
          [] f = "admitted" -> k > 0 /\ outcomes[k] = "ok" /\ CallOf(k).is_relevant
          [] f = "rejected" -> k > 0 /\ outcomes[k] = "ok" /\ ~CallOf(k).is_relevant

StatesOf(i, fs) == {f \in fs : InState(f, i)}

\* The screened papers are those of the fresh positions the cap keeps, each
\* with an outcome, and the admitted ones are as many as the collected.
ScreenedAsFiltered ==
    /\ Len(new_papers) = Cardinality({i \in 1..Len(all_papers) : ScreenIndex(i) > 0})
    /\ \A i \in 1..Len(all_papers) :
          ScreenIndex(i) > 0 => new_papers[ScreenIndex(i)] = all_papers[i]
    /\ Len(outcomes) = Len(new_papers)
    /\ Cardinality({i \in 1..Len(all_papers) : InState("admitted", i)})
          = Len(relevant_papers)

\* C25 (amended): every run command that has begun returns, and when its loop
\* is over every fetched paper is in exactly one of skipped-stale,
\* skipped-duplicate, omitted by the per-feed cap, admitted, rejected, errored.
C25_TerminatesWithOneState ==
    /\ (pc # "idle") ~> (pc = "idle")
    /\ [](pc = "notify" =>
             /\ ScreenedAsFiltered
             /\ \A i \in 1..Len(all_papers) :
                   Cardinality(StatesOf(i, TerminalStates \cup {"omitted-by-cap"})) = 1)

\* A run is over its loop with a paper the cap left out, a paper recorded
\* before and a paper it rejected.
C25_Witness ==
    /\ pc = "notify"
    /\ Len(all_papers) = 2
    /\ max_per_feed = 1
    /\ \E i \in 1..Len(all_papers) : InState("omitted-by-cap", i)
    /\ \E i \in 1..Len(all_papers) : InState("rejected", i)

\* C25: when the loop of a run is over, every fetched paper is in exactly one
\* of skipped-duplicate, skipped-stale, admitted, rejected, errored.
C25_FiveTerminalStates ==
    pc = "notify" =>
        \A i \in 1..Len(all_papers) : Cardinality(StatesOf(i, TerminalStates)) = 1

\* The links of the entries the feeds hold at every fetch.
PresentedLinks == UNION {{presented[f][i] : i \in 1..Len(presented[f])} : f \in Feeds}

\* The paper has its row: written after a verdict, or there before the
\* first run.
Persisted(u) ==
    /\ SelectByUrl(papers, u) # {}
    /\ okCalls[u] >= 1 \/ calls[u] = <<>>

ErroredNow(u) ==
    /\ pc \in {"screening", "notify"}
    /\ \E i \in 1..Len(outcomes) : outcomes[i] = "error" /\ new_papers[i].link = u

\* The first cap papers of their feed among ps, all of them without a cap.
WithinCap(ps, cap) ==
    {ps[i].link : i \in {j \in 1..Len(ps) :
        cap = 0 \/ Cardinality({k \in 1..j : ps[k].feed_url = ps[j].feed_url}) <= cap}}

\* C30: a backend call that raises writes no record; a run started while a
\* fetched, non-stale paper has no record finds the paper again and, the paper
\* being within the per-feed cap, puts it in the loop; and a paper whose call
\* raised is later screened with a verdict and has its row, the backend not
\* raising for ever.
C30_ErroredIsRetried ==
    /\ [][outcomes' = Append(outcomes, "error") => papers' = papers]_vars
    /\ [][pc = "idle" /\ now' = now =>
             \A u \in PresentedLinks :
                SelectByUrl(papers, u) = {} =>
                   /\ u \in LinksOf(found_papers')
                   /\ u \in WithinCap(found_papers', max_per_feed')
                         => u \in LinksOf(new_papers')]_vars
    /\ \A u \in Links :
          ErroredNow(u) ~> (okCalls[u] >= 1 /\ SelectByUrl(papers, u) # {})

\* The one entry the feeds hold has its row at the end of the loop of a later
\* run: no earlier run recorded it, so its call raised in each of them.
C30_Witness ==
    /\ pc = "notify"
    /\ run = 2
    /\ PresentedLinks = {"u2"}
    /\ outcomes = <<"ok">>
    /\ new_papers[1].link = "u2"
    /\ okCalls["u2"] = 1
    /\ SelectByUrl(papers, "u2") # {}

\* The fetched papers of feed f that are neither stale nor recorded before the
\* run, in fetch order.
FreshOf(f) ==
    SelectSeq(all_papers,
              LAMBDA p : p.feed_url = f /\ ~IsStale(p) /\ p.link \notin seenBefore)

\* The backend calls the loop has made for papers of feed f.
CallsFor(f) == Cardinality({k \in 1..Len(outcomes) : new_papers[k].feed_url = f})

\* C31: with --max-per-feed N > 0, a feed that delivers at least N papers
\* neither stale nor already recorded has exactly the first N of those in the
\* loop, whatever stale or recorded papers the feed delivers before or between
\* them, and when the loop is over the backend was called N times for the feed.
C31_CapCountsFreshOnly ==
    (pc \in {"screening", "notify"} /\ max_per_feed > 0) =>
        \A f \in Feeds :
            Len(FreshOf(f)) >= max_per_feed =>
                /\ FromFeed(new_papers, f) = SubSeq(FreshOf(f), 1, max_per_feed)
                /\ pc = "notify" => CallsFor(f) = max_per_feed

\* Cap 1 and a feed that delivers a stale paper before a fresh one: the loop
\* is over and the fresh paper was the one screened.
C31_Witness ==
    /\ pc = "notify"
    /\ max_per_feed = 1
    /\ \E f \in Feeds :
          /\ Len(FromFeed(all_papers, f)) = 2
          /\ IsStale(FromFeed(all_papers, f)[1])
          /\ FreshOf(f) = <<FromFeed(all_papers, f)[2]>>
          /\ new_papers = FreshOf(f)
          /\ CallsFor(f) = 1

\* The rows of feed f written since the run opened the store.
WrittenFor(f) == {r \in papers : r.id > openedAt /\ r.feed_url = f}

\* The backend calls of the loop that returned, for papers of feed f.
ReturnedFor(f) ==
    Cardinality({k \in 1..Len(outcomes) :
                    outcomes[k] = "ok" /\ new_papers[k].feed_url = f})

\* C32: the papers of the loop are fixed before the first backend call and a
\* call that raises brings no other paper in; so with --max-per-feed N > 0 the
\* loop makes at most N backend calls per feed, and the run writes at most as
\* many rows for a feed as calls returned for it, hence at most N.
C32_CapBoundsCallsAndRecords ==
    /\ [](pc \in {"screening", "notify"} /\ max_per_feed > 0 =>
             \A f \in Feeds :
                /\ Len(FromFeed(new_papers, f)) <= max_per_feed
                /\ CallsFor(f) <= max_per_feed
                /\ Cardinality(WrittenFor(f)) <= ReturnedFor(f)
                /\ ReturnedFor(f) <= CallsFor(f))
    /\ [][pc = "screening" => new_papers' = new_papers]_vars

\* Cap 1 and a feed with two fresh papers: the call for the first raised, the
\* loop is over, no row was written and the second paper was not screened.
C32_Witness ==
    /\ pc = "notify"
    /\ max_per_feed = 1
    /\ \E f \in Feeds :
          /\ Len(FreshOf(f)) = 2
          /\ FromFeed(new_papers, f) = <<FreshOf(f)[1]>>
          /\ CallsFor(f) = 1
          /\ WrittenFor(f) = {}
    /\ outcomes = <<"error">>

\* The calls of the current loop that returned for the paper with link u.
ReturnedNow(u) ==
    Cardinality({k \in 1..Len(outcomes) :
                    outcomes[k] = "ok" /\ new_papers[k].link = u})

\* C33: run --dry-run records every paper whose backend call returned, as a
\* run does, and sends nothing; the run without --dry-run that follows on the
\* same entries screens no paper the dry run got a verdict for, so it collects
\* and emits none of them, and it does send when it collected a paper.
C33_DryRunPersists ==
    /\ [](run = 1 /\ pc \in {"screening", "notify"} =>
             /\ dry_run
             /\ \A k \in 1..Len(outcomes) :
                   outcomes[k] = "ok" =>
                      /\ is_processed(CurrentDb, new_papers[k].link).value
                      /\ okCalls[new_papers[k].link] = ReturnedNow(new_papers[k].link)
             /\ Len(relevant_papers)
                   = Cardinality({k \in 1..Len(outcomes) :
                        outcomes[k] = "ok" /\ CallOf(k).is_relevant}))
    /\ [](run = 1 => email = <<>>)
    /\ [](run = 2 /\ pc \in {"screening", "notify"} =>
             \A k \in 1..Len(new_papers) :
                okCalls[new_papers[k].link] = ReturnedNow(new_papers[k].link))
    /\ [][run = 2 /\ pc = "notify" /\ pc' = "idle" =>
             Len(email') = IF relevant_papers # <<>> THEN 1 ELSE 0]_vars

\* The feeds hold two papers. The dry run got a verdict for one and its call
\* for the other raised; the run after it is over its loop and screened the
\* other one only.
C33_Witness ==
    /\ run = 2
    /\ pc = "notify"
    /\ max_per_feed = 0
    /\ Len(all_papers) = 2
    /\ Len(new_papers) = 1
    /\ outcomes = <<"ok">>
    /\ \A u \in Links : okCalls[u] = 1
    /\ \E u \in seenBefore : u \notin LinksOf(new_papers)

\* The links of the papers the current run collected as relevant.
AdmittedLinks == {relevant_papers[i].link : i \in 1..Len(relevant_papers)}

\* C34: every paper a run collected as relevant has its row before the send,
\* and a send that fails leaves the store as it is; the run that follows on the
\* same entries screens no paper the first run got a verdict for, so it
\* collects none of the papers the first run admitted, and their rows stay in
\* the store, where only a query finds them.
C34_SendFailureKeepsRecords ==
    /\ [](pc \in {"screening", "notify"} =>
             \A u \in AdmittedLinks :
                okCalls[u] >= 1 /\ is_processed(CurrentDb, u).value)
    /\ [][pc = "notify" /\ email' = Append(email, FALSE) =>
             papers' = papers /\ schema' = schema]_vars
    /\ [](run = 2 =>
             \A u \in Links :
                okCalls[u] > ReturnedNow(u) =>
                   /\ u \notin LinksOf(new_papers)
                   /\ u \notin AdmittedLinks
                   /\ is_processed(CurrentDb, u).value)

\* The first run admitted the one paper the feeds hold and its send failed;
\* the run after it found nothing to screen and collected nothing, and the
\* paper is what the report query returns.
C34_Witness ==
    /\ run = 2
    /\ pc = "idle"
    /\ status = "no_new_papers"
    /\ PresentedLinks = {"u2"}
    /\ okCalls["u2"] = 1
    /\ relevant_papers = <<>>
    /\ email = <<>>
    /\ LET recent == get_recent_relevant(CurrentDb, <<DefaultReportDays>>, now, tz)
       IN  Len(recent) = 1 /\ recent[1].paper_url = "u2"

====
